---------------------------- MODULE Spec2Model ----------------------------
(***************************************************************************)
(* A model of cusf_sidechain_types (src/src/lib.rs): the OutPoint, Output, *)
(* Transaction and Header types, their canonical (bincode) encoding, the   *)
(* Hashable contract, the header's merkle commitment, the value accounting *)
(* helpers and Output's Display.                                           *)
(*                                                                         *)
(* Unsigned integers wider than a byte are little-endian sequences of      *)
(* 16-bit limbs (u32: 2 limbs, u64: 4 limbs), so that the full u32 and u64 *)
(* ranges, and u64 overflow, are represented exactly.                      *)
(*                                                                         *)
(* A byte string is a sequence of items.  An item is a byte, <<n>> with n  *)
(* in 0..255, or a digest, <<"blake3", m>>: the HASH_LENGTH bytes blake3   *)
(* returns for the byte string m, which the program never takes apart.     *)
(* blake3 is thus a collision-free symbolic hash: two digests are equal    *)
(* exactly when their preimages are.                                       *)
(***************************************************************************)
EXTENDS Integers, Sequences, FiniteSets, TLC

VARIABLES
    overflow_checks,   \* the build profile: TRUE (debug) traps on overflow
    header,            \* a Header
    coinbase,          \* a sequence of Output
    transactions,      \* a sequence of Transaction
    p, q,              \* two OutPoints
    call               \* the last call made: [fn, ..., ret]

vars == <<overflow_checks, header, coinbase, transactions, p, q, call>>

---------------------------------------------------------------------------
(* Program constants.                                                      *)

MAIN_ADDRESS_LENGTH == 20
ADDRESS_LENGTH == 20
HASH_LENGTH == 32

---------------------------------------------------------------------------
(* Bounds of the model.                                                    *)

MaxCoinbase == 2
MaxTxs == 2
MaxOutputs == 2

---------------------------------------------------------------------------
(* Fixed-width unsigned integers as little-endian sequences of limbs.      *)

LimbBase == 2^16

u32_zero == <<0, 0>>
u32_MAX == <<LimbBase - 1, LimbBase - 1>>
u64_zero == <<0, 0, 0, 0>>
u64_MAX == <<LimbBase - 1, LimbBase - 1, LimbBase - 1, LimbBase - 1>>

\* The u32 / u64 holding the small number n (n < 2^16).
u32_of(n) == <<n, 0>>
u64_of(n) == <<n, 0, 0, 0>>

\* 2^63, the smallest u64 whose double overflows.
u64_HIGH_BIT == <<0, 0, 0, LimbBase \div 2>>

\* The carry into limb i (1-based) of a + b.
RECURSIVE CarryInto(_, _, _)
CarryInto(a, b, i) ==
    IF i = 1 THEN 0
    ELSE (a[i - 1] + b[i - 1] + CarryInto(a, b, i - 1)) \div LimbBase

\* a + b modulo 2^(16 * Len(a)), and whether the true sum did not fit.
wrapping_add(a, b) ==
    [i \in 1..Len(a) |-> (a[i] + b[i] + CarryInto(a, b, i)) % LimbBase]

add_overflows(a, b) == CarryInto(a, b, Len(a) + 1) = 1

Panic(msg) == [ok |-> FALSE, panic |-> msg]
Returned(v) == [ok |-> TRUE, val |-> v]

\* The `+` of u64 operands: with overflow checks (debug builds) an overflow
\* panics, without them (release builds) the sum wraps.
u64_add(a, b) ==
    IF add_overflows(a, b) /\ overflow_checks
    THEN Panic("attempt to add with overflow")
    ELSE Returned(wrapping_add(a, b))

---------------------------------------------------------------------------
(* Byte strings.                                                           *)

\* The byte of value n, and the value of such a byte.
Byte(n) == <<n>>
ByteValue(b) == b[1]

RECURSIVE Concat(_)
Concat(ss) == IF ss = <<>> THEN <<>> ELSE Head(ss) \o Concat(Tail(ss))

to_le_bytes(x) ==
    [i \in 1..(2 * Len(x)) |->
        IF i % 2 = 1 THEN Byte(x[(i + 1) \div 2] % 256)
                     ELSE Byte(x[i \div 2] \div 256)]

from_le_bytes(bs) ==
    [k \in 1..(Len(bs) \div 2) |->
        ByteValue(bs[2 * k - 1]) + 256 * ByteValue(bs[2 * k])]

\* An array of n bytes, all equal to b.
ByteArray(n, b) == [i \in 1..n |-> Byte(b)]

---------------------------------------------------------------------------
(* OutPoint, Output, Transaction, Header.                                  *)

OutPointRegular(tn, n) ==
    [variant |-> "Regular", transaction_number |-> tn, output_number |-> n]
OutPointCoinbase(bn, n) ==
    [variant |-> "Coinbase", block_number |-> bn, output_number |-> n]
OutPointDeposit(sn) ==
    [variant |-> "Deposit", sequence_number |-> sn]

OutputRegular(a, v) ==
    [variant |-> "Regular", address |-> a, value |-> v]
OutputWithdrawal(a, m, v, f) ==
    [variant |-> "Withdrawal", address |-> a, main_address |-> m,
     value |-> v, fee |-> f]

Transaction(ins, outs) == [inputs |-> ins, outputs |-> outs]

Header(prev, root) == [prev_side_block_hash |-> prev, merkle_root |-> root]

\* The position of a variant in its enum's declaration.
OutPoint_discriminant(x) ==
    CASE x.variant = "Regular" -> 0
      [] x.variant = "Coinbase" -> 1
      [] x.variant = "Deposit" -> 2

Output_discriminant(o) ==
    CASE o.variant = "Regular" -> 0
      [] o.variant = "Withdrawal" -> 1

\* Mutant: an equality that compares the numbers and not the variants.
OutPoint_eq_numbers_only(x, y) ==
    LET number(z) ==
            CASE z.variant = "Regular" -> z.transaction_number
              [] z.variant = "Coinbase" -> z.block_number \o <<0, 0>>
              [] z.variant = "Deposit" -> z.sequence_number
        output(z) == IF z.variant = "Deposit" THEN 0 ELSE z.output_number
    IN  number(x) = number(y) /\ output(x) = output(y)

\* #[derive(PartialEq)] on OutPoint: the discriminants, then the fields.
OutPoint_eq(x, y) ==
    /\ OutPoint_discriminant(x) = OutPoint_discriminant(y)
    /\ CASE x.variant = "Regular" ->
              /\ x.transaction_number = y.transaction_number
              /\ x.output_number = y.output_number
         [] x.variant = "Coinbase" ->
              /\ x.block_number = y.block_number
              /\ x.output_number = y.output_number
         [] x.variant = "Deposit" ->
              x.sequence_number = y.sequence_number

---------------------------------------------------------------------------
(* The canonical encoding: bincode::serialize driven by the derived        *)
(* Serialize impls.  Integers are fixed-width little-endian, an enum is    *)
(* its variant index as a u32 followed by its fields in declaration order, *)
(* a fixed-size array is its elements alone, a Vec or slice is its length  *)
(* as a u64 followed by its elements.                                      *)

serialize_u8(b) == <<Byte(b)>>
serialize_u32(x) == to_le_bytes(x)
serialize_u64(x) == to_le_bytes(x)

\* Mutant: the variant index in one byte (bincode's variable-length integers).
serialize_variant_index_varint(n) == <<Byte(n)>>

serialize_variant_index(n) == serialize_u32(u32_of(n))

serialize_len(n) == serialize_u64(u64_of(n))
serialize_array(a) == a

serialize_OutPoint(x) ==
    serialize_variant_index(OutPoint_discriminant(x)) \o
    CASE x.variant = "Regular" ->
            serialize_u64(x.transaction_number) \o serialize_u8(x.output_number)
      [] x.variant = "Coinbase" ->
            serialize_u32(x.block_number) \o serialize_u8(x.output_number)
      [] x.variant = "Deposit" ->
            serialize_u64(x.sequence_number)

\* Mutant: a Withdrawal's fee is left out of the encoding.
serialize_Output_skip_fee(o) ==
    serialize_variant_index(Output_discriminant(o)) \o
    CASE o.variant = "Regular" ->
            serialize_array(o.address) \o serialize_u64(o.value)
      [] o.variant = "Withdrawal" ->
            serialize_array(o.address) \o serialize_array(o.main_address) \o
            serialize_u64(o.value)

serialize_Output(o) ==
    serialize_variant_index(Output_discriminant(o)) \o
    CASE o.variant = "Regular" ->
            serialize_array(o.address) \o serialize_u64(o.value)
      [] o.variant = "Withdrawal" ->
            serialize_array(o.address) \o serialize_array(o.main_address) \o
            serialize_u64(o.value) \o serialize_u64(o.fee)

serialize_OutPoints(xs) ==
    serialize_len(Len(xs)) \o
    Concat([i \in 1..Len(xs) |-> serialize_OutPoint(xs[i])])

serialize_Outputs(os) ==
    serialize_len(Len(os)) \o
    Concat([i \in 1..Len(os) |-> serialize_Output(os[i])])

serialize_Transaction(t) ==
    serialize_OutPoints(t.inputs) \o serialize_Outputs(t.outputs)

\* bincode::deserialize driven by #[derive(Deserialize)] on OutPoint.
DecodeErr(msg) == [ok |-> FALSE, err |-> msg]

deserialize_OutPoint(bs) ==
    IF Len(bs) < 4 THEN DecodeErr("unexpected end of input")
    ELSE LET idx == from_le_bytes(SubSeq(bs, 1, 4)) IN
         CASE idx = u32_of(0) ->
                IF Len(bs) < 13 THEN DecodeErr("unexpected end of input")
                ELSE Returned(OutPointRegular(
                        from_le_bytes(SubSeq(bs, 5, 12)), ByteValue(bs[13])))
           [] idx = u32_of(1) ->
                IF Len(bs) < 9 THEN DecodeErr("unexpected end of input")
                ELSE Returned(OutPointCoinbase(
                        from_le_bytes(SubSeq(bs, 5, 8)), ByteValue(bs[9])))
           [] idx = u32_of(2) ->
                IF Len(bs) < 12 THEN DecodeErr("unexpected end of input")
                ELSE Returned(OutPointDeposit(
                        from_le_bytes(SubSeq(bs, 5, 12))))
           [] OTHER -> DecodeErr("invalid variant index")

---------------------------------------------------------------------------
(* Hashable and the merkle commitment.                                     *)

\* blake3::hash(bytes).into(): HASH_LENGTH bytes determined by the preimage.
blake3_hash(bytes) == <<"blake3", bytes>>

\* The byte string a digest is the hash of.
Preimage(digest) == digest[2]

\* The bytes of a [u8; HASH_LENGTH] digest, as a byte string.
digest_bytes(digest) == <<digest>>

\* The number of bytes of a byte string.
RECURSIVE ByteLen(_)
ByteLen(bs) ==
    IF bs = <<>> THEN 0
    ELSE (IF Len(Head(bs)) = 1 THEN 1 ELSE HASH_LENGTH) + ByteLen(Tail(bs))

\* Hashable::hash for T = OutPoint, Transaction and &[Output].
hash_OutPoint(x) == blake3_hash(serialize_OutPoint(x))
hash_Transaction(t) == blake3_hash(serialize_Transaction(t))
hash_Outputs(os) == blake3_hash(serialize_Outputs(os))

\* Mutant: each coinbase output is hashed on its own.
compute_merkle_root_per_output(cb, txs) ==
    LET hashes == Concat(<< [i \in 1..Len(cb) |-> blake3_hash(serialize_Output(cb[i]))],
                            [i \in 1..Len(txs) |-> hash_Transaction(txs[i])] >>)
    IN  blake3_hash(Concat([i \in 1..Len(hashes) |-> digest_bytes(hashes[i])]))

\* Mutant: the transaction hashes are put in a canonical order first.
compute_merkle_root_sorted(cb, txs) ==
    LET n == Len(txs)
        sorted == CHOOSE s \in {[i \in 1..n |-> hash_Transaction(txs[f[i]])] :
                                   f \in Permutations(1..n)} : TRUE
        hashes == Concat(<< <<hash_Outputs(cb)>>, sorted >>)
    IN  blake3_hash(Concat([i \in 1..Len(hashes) |-> digest_bytes(hashes[i])]))

\* Header::compute_merkle_root: [vec![coinbase.hash()], tx hashes].concat()
\* is the list of digests, its .concat() the bytes hashed.
compute_merkle_root(cb, txs) ==
    LET hashes == Concat(<< <<hash_Outputs(cb)>>,
                            [i \in 1..Len(txs) |-> hash_Transaction(txs[i])] >>)
    IN  blake3_hash(Concat([i \in 1..Len(hashes) |-> digest_bytes(hashes[i])]))

\* Mutant: the root is compared with the other hash of the header.
validate_block_prev_hash(self, cb, txs) ==
    LET merkle_root == compute_merkle_root(cb, txs)
    IN  self.prev_side_block_hash = merkle_root

\* Header::validate_block
validate_block(self, cb, txs) ==
    LET merkle_root == compute_merkle_root(cb, txs)
    IN  self.merkle_root = merkle_root

---------------------------------------------------------------------------
(* Value accounting.                                                       *)

\* Output::total_value
total_value(o) ==
    CASE o.variant = "Regular" -> Returned(o.value)
      [] o.variant = "Withdrawal" -> u64_add(o.value, o.fee)

\* Iterator::sum over u64: a left fold of `+` from 0 over the mapped
\* outputs; a panic in total_value or in `+` ends the call.
RECURSIVE sum_total_values(_, _, _)
sum_total_values(os, i, acc) ==
    IF i > Len(os) THEN Returned(acc)
    ELSE LET v == total_value(os[i]) IN
         IF ~v.ok THEN v
         ELSE LET s == u64_add(acc, v.val) IN
              IF ~s.ok THEN s ELSE sum_total_values(os, i + 1, s.val)

\* Transaction::value_out
value_out(t) == sum_total_values(t.outputs, 1, u64_zero)

---------------------------------------------------------------------------
(* Display for Output.                                                     *)

\* bs58::encode(address).with_check().into_string() and the Display of
\* bitcoin::Amount::from_sat(value), as terms of their arguments.
bs58_check(a) == [bs58check |-> a]
Amount_from_sat(v) == [amount_sat |-> v]

\* Mutant: a Withdrawal is rendered like a Regular output.
Output_fmt_total(o) ==
    Returned(<<bs58_check(o.address), ": ", Amount_from_sat(o.value)>>)

\* <Output as Display>::fmt: the pieces written, or the panic of todo!().
Output_fmt(o) ==
    CASE o.variant = "Regular" ->
            Returned(<<bs58_check(o.address), ": ", Amount_from_sat(o.value)>>)
      [] o.variant = "Withdrawal" -> Panic("not yet implemented")

---------------------------------------------------------------------------
(* The values the operations are applied to.                               *)

BoundedSeqs(S, n) == UNION {[1..k -> S] : k \in 0..n}

ADDR_A == ByteArray(ADDRESS_LENGTH, 10)
ADDR_B == ByteArray(ADDRESS_LENGTH, 11)
MAIN_ADDR == ByteArray(MAIN_ADDRESS_LENGTH, 12)
ZERO_HASH == ByteArray(HASH_LENGTH, 0)
ONES_HASH == ByteArray(HASH_LENGTH, 255)

U64Samples == {u64_zero, u64_of(7), u64_HIGH_BIT, u64_MAX}
U32Samples == {u32_zero, u32_of(7), u32_MAX}
U8Samples == {0, 255}

OutPoints ==
    {OutPointRegular(tn, n) : tn \in U64Samples \ {u64_HIGH_BIT}, n \in U8Samples}
    \cup {OutPointCoinbase(bn, n) : bn \in U32Samples, n \in U8Samples}
    \cup {OutPointDeposit(sn) : sn \in U64Samples \ {u64_HIGH_BIT}}

\* Blocks: outputs and transactions that differ in a variant, an address,
\* a value, an input or only in the order of their parts.
BlockOutputs ==
    { OutputRegular(ADDR_A, u64_of(5000)),
      OutputWithdrawal(ADDR_A, MAIN_ADDR, u64_of(100), u64_of(7)) }

BlockTransactions ==
    { Transaction(<<>>, <<>>),
      Transaction(<<OutPointDeposit(u64_of(7))>>,
                  <<OutputRegular(ADDR_B, u64_of(100))>>),
      Transaction(<<OutPointRegular(u64_of(7), 0), OutPointCoinbase(u32_of(7), 0)>>,
                  <<OutputWithdrawal(ADDR_A, MAIN_ADDR, u64_of(100), u64_of(7)),
                    OutputRegular(ADDR_A, u64_of(5000))>>) }

\* Value accounting: outputs over the whole u64 range.
ValueOutputs ==
    {OutputRegular(ADDR_A, v) : v \in U64Samples}
    \cup {OutputWithdrawal(ADDR_A, MAIN_ADDR, v, f) : v, f \in U64Samples}

ValueTransactions ==
    {Transaction(ins, outs) :
        ins \in {<<>>, <<OutPointDeposit(u64_of(7))>>},
        outs \in BoundedSeqs(ValueOutputs, MaxOutputs)}

NoCall == [fn |-> "none"]

---------------------------------------------------------------------------
(* Blocks: the commitment and its validation.                              *)
(* No operation on blocks or OutPoints adds integers, so these two         *)
(* specifications fix the build profile; SpecValue draws it.               *)

Init ==
    /\ overflow_checks = FALSE
    /\ coinbase \in BoundedSeqs(BlockOutputs, MaxCoinbase)
    /\ transactions \in BoundedSeqs(BlockTransactions, MaxTxs)
    /\ \E prev \in {ZERO_HASH, ONES_HASH} :
       \E root \in {ZERO_HASH, compute_merkle_root(<<>>, <<>>),
                    compute_merkle_root(coinbase, transactions)} :
          header = Header(prev, root)
    /\ p = OutPointDeposit(u64_zero)
    /\ q = OutPointDeposit(u64_zero)
    /\ call = NoCall

ComputeMerkleRoot ==
    /\ call' = [fn |-> "compute_merkle_root",
                ret |-> compute_merkle_root(coinbase, transactions)]
    /\ UNCHANGED <<overflow_checks, header, coinbase, transactions, p, q>>

ValidateBlock ==
    /\ call' = [fn |-> "validate_block",
                ret |-> validate_block(header, coinbase, transactions)]
    /\ UNCHANGED <<overflow_checks, header, coinbase, transactions, p, q>>

Next == ComputeMerkleRoot \/ ValidateBlock

Spec == Init /\ [][Next]_vars

---------------------------------------------------------------------------
(* Value accounting and Display, on the outputs of one transaction.        *)

InitValue ==
    /\ overflow_checks \in BOOLEAN
    /\ coinbase = <<>>
    /\ \E t \in ValueTransactions : transactions = <<t>>
    /\ header = Header(ZERO_HASH, ZERO_HASH)
    /\ p = OutPointDeposit(u64_zero)
    /\ q = OutPointDeposit(u64_zero)
    /\ call = NoCall

TotalValue ==
    \E j \in 1..Len(transactions[1].outputs) :
        /\ call' = [fn |-> "total_value", output |-> j,
                    ret |-> total_value(transactions[1].outputs[j])]
        /\ UNCHANGED <<overflow_checks, header, coinbase, transactions, p, q>>

ValueOut ==
    /\ call' = [fn |-> "value_out", ret |-> value_out(transactions[1])]
    /\ UNCHANGED <<overflow_checks, header, coinbase, transactions, p, q>>

OutputFmt ==
    \E j \in 1..Len(transactions[1].outputs) :
        /\ call' = [fn |-> "fmt", output |-> j,
                    ret |-> Output_fmt(transactions[1].outputs[j])]
        /\ UNCHANGED <<overflow_checks, header, coinbase, transactions, p, q>>

NextValue == TotalValue \/ ValueOut \/ OutputFmt

SpecValue == InitValue /\ [][NextValue]_vars

---------------------------------------------------------------------------
(* OutPoints: equality, hashing, encoding and decoding.                    *)

InitOutPoint ==
    /\ overflow_checks = FALSE
    /\ coinbase = <<>>
    /\ transactions = <<>>
    /\ header = Header(ZERO_HASH, ZERO_HASH)
    /\ p \in OutPoints
    /\ q \in OutPoints
    /\ call = NoCall

OutPointEq ==
    /\ call' = [fn |-> "eq", ret |-> OutPoint_eq(p, q)]
    /\ UNCHANGED <<overflow_checks, header, coinbase, transactions, p, q>>

OutPointHash ==
    /\ call' = [fn |-> "hash", ret |-> <<hash_OutPoint(p), hash_OutPoint(q)>>]
    /\ UNCHANGED <<overflow_checks, header, coinbase, transactions, p, q>>

OutPointSerialize ==
    /\ call' = [fn |-> "serialize", ret |-> serialize_OutPoint(p)]
    /\ UNCHANGED <<overflow_checks, header, coinbase, transactions, p, q>>

\* Decodes the bytes the last call encoded.
OutPointDeserialize ==
    /\ call.fn = "serialize"
    /\ call' = [fn |-> "deserialize", ret |-> deserialize_OutPoint(call.ret)]
    /\ UNCHANGED <<overflow_checks, header, coinbase, transactions, p, q>>

NextOutPoint ==
    OutPointEq \/ OutPointHash \/ OutPointSerialize \/ OutPointDeserialize

SpecOutPoint == InitOutPoint /\ [][NextOutPoint]_vars

---------------------------------------------------------------------------
(* Properties of the commitment (Spec).                                    *)

\* C1: validate_block returns true if and only if header.merkle_root equals
\* compute_merkle_root(coinbase, transactions), and the same header with any
\* other prev_side_block_hash gets the same answer.
C1_ValidateBlockIffRootMatches ==
    call.fn = "validate_block" =>
        /\ call.ret = (header.merkle_root = compute_merkle_root(coinbase, transactions))
        /\ \A prev \in {ZERO_HASH, ONES_HASH, header.merkle_root} :
              validate_block(Header(prev, header.merkle_root), coinbase, transactions)
                  = call.ret

C1_Witness ==
    /\ call.fn = "validate_block"
    /\ call.ret = TRUE
    /\ header.prev_side_block_hash = ONES_HASH
    /\ Len(transactions) = 2

\* C2: the root is the hash of a preimage of HASH_LENGTH * (n + 1) bytes made
\* of n + 1 digests and nothing else: the hash of the encoded coinbase list
\* first, then the hash of each encoded transaction, in list order.
C2_RootIsHashOfConcatenatedHashes ==
    call.fn = "compute_merkle_root" =>
        LET pre == Preimage(call.ret)
            n == Len(transactions)
        IN  /\ call.ret = blake3_hash(pre)
            /\ ByteLen(pre) = HASH_LENGTH * (n + 1)
            /\ Len(pre) = n + 1
            /\ pre[1] = blake3_hash(serialize_Outputs(coinbase))
            /\ \A k \in 1..n :
                  pre[k + 1] = blake3_hash(serialize_Transaction(transactions[k]))

C2_Witness ==
    /\ call.fn = "compute_merkle_root"
    /\ Len(transactions) = 2
    /\ Len(coinbase) = 2

Swap(s, i, j) == [s EXCEPT ![i] = s[j], ![j] = s[i]]

\* C3: swapping two different transactions, or two different coinbase
\* outputs, changes the root.
C3_RootIsOrderSensitive ==
    call.fn = "compute_merkle_root" =>
        /\ \A i, j \in 1..Len(transactions) :
              transactions[i] # transactions[j] =>
                  compute_merkle_root(coinbase, Swap(transactions, i, j)) # call.ret
        /\ \A i, j \in 1..Len(coinbase) :
              coinbase[i] # coinbase[j] =>
                  compute_merkle_root(Swap(coinbase, i, j), transactions) # call.ret

C3_Witness ==
    /\ call.fn = "compute_merkle_root"
    /\ Len(transactions) = 2
    /\ transactions[1] # transactions[2]
    /\ Len(coinbase) = 2
    /\ coinbase[1] # coinbase[2]

\* A change of one byte of one field: byte k of field f of input or output
\* i of transaction t (t = 0: the coinbase list) takes another value.
ByteFields(x) ==
    IF "address" \in DOMAIN x
    THEN IF x.variant = "Withdrawal" THEN {"address", "main_address"} ELSE {"address"}
    ELSE {}

UIntFields(x) ==
    IF "address" \in DOMAIN x
    THEN IF x.variant = "Withdrawal" THEN {"value", "fee"} ELSE {"value"}
    ELSE CASE x.variant = "Regular" -> {"transaction_number"}
           [] x.variant = "Coinbase" -> {"block_number"}
           [] x.variant = "Deposit" -> {"sequence_number"}

U8Fields(x) ==
    IF "address" \in DOMAIN x \/ x.variant = "Deposit" THEN {} ELSE {"output_number"}

FieldBytes(x, f) ==
    IF f \in ByteFields(x) THEN Len(x[f])
    ELSE IF f \in UIntFields(x) THEN 2 * Len(x[f])
    ELSE 1

OtherByte(n) == (n + 1) % 256

\* The limb l with its low (k odd) or high (k even) byte changed.
ChangeLimb(l, k) ==
    IF k % 2 = 1 THEN OtherByte(l % 256) + 256 * (l \div 256)
    ELSE (l % 256) + 256 * OtherByte(l \div 256)

ChangeField(x, f, k) ==
    IF f \in ByteFields(x)
    THEN [x EXCEPT ![f][k] = Byte(OtherByte(ByteValue(@)))]
    ELSE IF f \in UIntFields(x)
    THEN [x EXCEPT ![f][(k + 1) \div 2] = ChangeLimb(@, k)]
    ELSE [x EXCEPT ![f] = OtherByte(@)]

FieldChanges(x) ==
    UNION {{<<f, k>> : k \in 1..FieldBytes(x, f)} :
              f \in ByteFields(x) \cup UIntFields(x) \cup U8Fields(x)}

ListChanges(t, part, xs) ==
    UNION {{<<t, part, i, c[1], c[2]>> : c \in FieldChanges(xs[i])} : i \in 1..Len(xs)}

BlockChanges(cb, txs) ==
    ListChanges(0, "outputs", cb)
    \cup UNION {ListChanges(t, "inputs", txs[t].inputs)
                \cup ListChanges(t, "outputs", txs[t].outputs) : t \in 1..Len(txs)}

\* The block (cb, txs) with change c made.
ChangedBlock(cb, txs, c) ==
    LET t == c[1]  part == c[2]  i == c[3]  f == c[4]  k == c[5] IN
    IF t = 0
    THEN [coinbase |-> [cb EXCEPT ![i] = ChangeField(@, f, k)], transactions |-> txs]
    ELSE [coinbase |-> cb,
          transactions |-> [txs EXCEPT ![t][part][i] = ChangeField(@, f, k)]]

\* C6: once validate_block has returned true, the same header is rejected
\* for every block that differs in one field of one coinbase output or of
\* one transaction.
C6_AnyFieldChangeInvalidates ==
    (call.fn = "validate_block" /\ call.ret = TRUE) =>
        \A c \in BlockChanges(coinbase, transactions) :
            LET b == ChangedBlock(coinbase, transactions, c)
            IN  /\ <<b.coinbase, b.transactions>> # <<coinbase, transactions>>
                /\ validate_block(header, b.coinbase, b.transactions) = FALSE

C6_Witness ==
    /\ call.fn = "validate_block"
    /\ call.ret = TRUE
    /\ \E i \in 1..Len(coinbase) : coinbase[i].variant = "Withdrawal"
    /\ \E i \in 1..Len(transactions) : Len(transactions[i].inputs) = 2
    /\ BlockChanges(coinbase, transactions) # {}

---------------------------------------------------------------------------
(* Properties of OutPoint (SpecOutPoint).                                  *)

\* C7: p == q exactly when p and q are the same variant with the same field
\* values; OutPoints of different variants are unequal, are encoded
\* differently and hash differently.
C7_VariantIsPartOfIdentity ==
    /\ call.fn = "eq" =>
          /\ call.ret = (p = q)
          /\ p.variant # q.variant => call.ret = FALSE
    /\ (call.fn = "hash" /\ p.variant # q.variant) =>
          /\ call.ret[1] # call.ret[2]
          /\ serialize_OutPoint(p) # serialize_OutPoint(q)

C7_Witness ==
    /\ call.fn = "eq"
    /\ p = OutPointDeposit(u64_of(7))
    /\ q = OutPointRegular(u64_of(7), 0)
    /\ call.ret = FALSE

\* C8: decoding the encoding of an OutPoint returns that OutPoint.
C8_OutPointRoundTrips ==
    call.fn = "deserialize" =>
        /\ call.ret.ok
        /\ call.ret.val.variant = p.variant
        /\ OutPoint_eq(call.ret.val, p)

C8_Witness ==
    /\ call.fn = "deserialize"
    /\ p = OutPointCoinbase(u32_MAX, 255)
    /\ call.ret = Returned(p)

---------------------------------------------------------------------------
(* Properties of the value helpers and of Display (SpecValue).             *)

\* Natural numbers too large for a u64: one more limb.
Widen(x) == x \o <<0>>
NatSum(a, b) == wrapping_add(a, b)

\* The sum of value and fee, as a natural number.
ExactTotal(o) ==
    IF o.variant = "Regular" THEN Widen(o.value)
    ELSE NatSum(Widen(o.value), Widen(o.fee))

RECURSIVE ExactSum(_)
ExactSum(os) ==
    IF os = <<>> THEN Widen(u64_zero)
    ELSE NatSum(ExactTotal(Head(os)), ExactSum(Tail(os)))

\* C4: total_value returns value for a Regular output and value + fee for a
\* Withdrawal, for all u64 values of value and fee.
C4_TotalValueIsValuePlusFee ==
    call.fn = "total_value" =>
        LET o == transactions[1].outputs[call.output]
        IN  /\ call.ret.ok
            /\ Widen(call.ret.val) = ExactTotal(o)

\* C4 where value + fee fits a u64.
C4_TotalValueWithoutOverflow ==
    call.fn = "total_value" =>
        LET o == transactions[1].outputs[call.output]
        IN  ExactTotal(o)[5] = 0 =>
                call.ret.ok /\ Widen(call.ret.val) = ExactTotal(o)

Permuted(s, f) == [i \in 1..Len(s) |-> s[f[i]]]

\* C5, first part: value_out returns the sum of value (+ fee) over the outputs.
C5_ValueOutIsSum ==
    call.fn = "value_out" =>
        /\ call.ret.ok
        /\ Widen(call.ret.val) = ExactSum(transactions[1].outputs)

\* C5, second part: no permutation of the outputs and no other inputs list
\* changes what value_out returns.
C5_ValueOutIgnoresOrderAndInputs ==
    call.fn = "value_out" =>
        LET t == transactions[1] IN
        /\ \A f \in Permutations(1..Len(t.outputs)) :
              value_out(Transaction(t.inputs, Permuted(t.outputs, f))) = call.ret
        /\ \A ins \in {<<>>, <<OutPointDeposit(u64_of(7))>>,
                       <<OutPointRegular(u64_MAX, 255), OutPointCoinbase(u32_MAX, 0)>>} :
              value_out(Transaction(ins, t.outputs)) = call.ret

\* C5: value_out is the sum of the outputs' totals, whatever their order and
\* whatever the inputs.
C5_ValueOutIsOrderFreeSum ==
    C5_ValueOutIsSum /\ C5_ValueOutIgnoresOrderAndInputs

\* C10: Display renders a Regular output as its base-58-check address, ": "
\* and its amount, and panics on every Withdrawal.
C10_DisplayPanicsOnWithdrawal ==
    call.fn = "fmt" =>
        LET o == transactions[1].outputs[call.output]
        IN  /\ o.variant = "Regular" =>
                  /\ call.ret.ok
                  /\ call.ret.val =
                        <<bs58_check(o.address), ": ", Amount_from_sat(o.value)>>
            /\ o.variant = "Withdrawal" =>
                  /\ ~call.ret.ok
                  /\ "panic" \in DOMAIN call.ret

C10_Witness ==
    /\ call.fn = "fmt"
    /\ transactions[1].outputs[call.output].variant = "Withdrawal"
    /\ ~call.ret.ok

===========================================================================
